---- MODULE Spec2Model ----
(***************************************************************************)
(* A model of main.py: one batch run connects to Postgres, creates the two *)
(* tables if they are missing, fetches every page of the calendar,         *)
(* normalizes the raw entries into (Event, [Attendee]) groups and writes   *)
(* them in one transaction.  The process is run again and again against   *)
(* the same database.                                                      *)
(***************************************************************************)
EXTENDS Naturals, Sequences, FiniteSets, TLC

\* How often the batch job is started against the same database.
MaxRuns == 2
\* The largest number of pages the remote splits one result into.
MaxPages == 2

\* page_token = None (a falsy token: None or the empty string).
NoPageToken == 0

VARIABLES
    pc,               \* main's position: idle, migrate, fetch, process, insert, done, failed
    runs,             \* processes started so far
    conn,             \* the connection of the running process: none, open, closed
    connOps,          \* what the running process did with its connection, in order
    calls,            \* the functions main has called in this run, in order
    tablesExist,      \* the tables of the database that exist
    db,               \* the committed rows: [events, attendees]
    tx,               \* the rows as the open transaction sees them
    serial,           \* the sequence behind attendees.attendee_id (never rolled back)
    remote,           \* the pages the calendar API serves during this run
    requests,         \* the page tokens of the list requests issued, in order
    all_events,       \* fetch_events: the accumulator
    page_token,       \* fetch_events: the token of the next request
    raw_events,       \* main: what fetch_events returned
    processed_events, \* process_events: the accumulator, then main's local
    error,            \* the exception that ended the run, [type |-> "none"] if none
    grp,              \* insert_into_postgres: the group being written
    stmt,             \* insert_into_postgres: statements of that group already executed
    writes,           \* the event rows the open transaction has written, in order
    dbAtStart,        \* the committed rows when the run connected
    runLog            \* one entry per finished run: its outcome and, when it
                      \* succeeded, its fetched input and the row counts it left

vars == <<pc, runs, conn, connOps, calls, tablesExist, db, tx, serial, remote,
          requests, all_events, page_token, raw_events, processed_events, error,
          grp, stmt, writes, dbAtStart, runLog>>

----------------------------------------------------------------------------
(* Text.  An email is a sequence of characters so that trimming and the    *)
(* shape check are computed, every other string is an atom.                *)

a1 == <<"a", "@", "x", ".", "c">>
a2 == <<"b", "@", "x", ".", "c">>
a1Padded == <<" ", "a", "@", "x", ".", "c", " ">>
notAnEmail == <<"a", "b">>
innerSpace == <<"a", " ", "@", "x", ".", "c">>
NoEmail == <<"N", "o", " ", "E", "m", "a", "i", "l">>

RECURSIVE lstrip(_)
lstrip(s) == IF s # <<>> /\ Head(s) = " " THEN lstrip(Tail(s)) ELSE s

RECURSIVE rstrip(_)
rstrip(s) ==
    IF s # <<>> /\ s[Len(s)] = " " THEN rstrip(SubSeq(s, 1, Len(s) - 1)) ELSE s

\* str.strip()
strip(s) == rstrip(lstrip(s))

AtSigns(s) == {i \in 1..Len(s) : s[i] = "@"}

\* The shape an address must have: no blank, one "@", a local part, and a
\* dotted domain whose labels are not empty.
EmailShape(s) ==
    /\ \A i \in 1..Len(s) : s[i] # " "
    /\ Cardinality(AtSigns(s)) = 1
    /\ LET at == CHOOSE i \in AtSigns(s) : TRUE
           dom == SubSeq(s, at + 1, Len(s))
       IN  /\ at > 1
           /\ dom # <<>>
           /\ \E i \in 1..Len(dom) : dom[i] = "."
           /\ dom[1] # "." /\ dom[Len(dom)] # "."
           /\ \A i \in 1..(Len(dom) - 1) : ~(dom[i] = "." /\ dom[i + 1] = ".")

\* dict.get(key, default)
Get(d, key, default) == IF key \in DOMAIN d THEN d[key] ELSE default

\* a or b, for a value that is None when it is missing
Or(a, b) == IF a # "None" /\ a # "" THEN a ELSE b

----------------------------------------------------------------------------
(* The raw entries the calendar serves.                                    *)

boss == [email |-> "boss@x.c"]

RawA1 == [id |-> "A", summary |-> "Standup", status |-> "confirmed",
          start |-> [dateTime |-> "2024-01-01T10:00:00+00:00"],
          end |-> [dateTime |-> "2024-01-01T11:00:00+00:00"],
          updated |-> "2023-12-01T00:00:00+00:00", organizer |-> boss,
          attendees |-> <<[email |-> a1], [email |-> a2]>>]

\* The same event later: every mutable field differs, the optional ones are gone.
RawA2 == [id |-> "A",
          start |-> [date |-> "2024-02-01"], end |-> [date |-> "2024-02-02"],
          updated |-> "2024-01-15T00:00:00+00:00",
          organizer |-> [displayName |-> "Boss"]]

RawB == [id |-> "B", summary |-> "Review", status |-> "tentative",
         start |-> [dateTime |-> "2024-03-01T10:00:00+00:00"],
         end |-> [dateTime |-> "2024-03-01T11:00:00+00:00"],
         updated |-> "2024-02-01T00:00:00+00:00", organizer |-> boss,
         attendees |-> <<[email |-> a1Padded]>>]

RawBNoEmail == [RawB EXCEPT !.attendees = <<[email |-> a2], [displayName |-> "Room 1"]>>]

RawBBadEmail == [RawB EXCEPT !.attendees = <<[email |-> notAnEmail]>>]

RawBInnerSpace == [RawB EXCEPT !.attendees = <<[email |-> innerSpace]>>]

RawBNoTime == [RawB EXCEPT !.start = [timeZone |-> "UTC"]]

\* What the calendar holds in the fetched window, in start-time order.
Calendars ==
    { <<>>, <<RawA1>>, <<RawA2>>, <<RawB>>, <<RawA1, RawB>>, <<RawA1, RawA2>>,
      <<RawA1, RawBNoEmail>>, <<RawA1, RawBBadEmail>>, <<RawBInnerSpace>>,
      <<RawA1, RawBNoTime>>, <<RawBNoEmail, RawA1>> }

----------------------------------------------------------------------------
(* The calendar API: the result is served in pages, every page but the     *)
(* last carrying the token of the next one.                                *)

RECURSIVE SumTo(_, _)
SumTo(f, i) == IF i = 0 THEN 0 ELSE f[i] + SumTo(f, i - 1)

\* The ways to cut len items into n pages (a page may be empty).
Chunkings(n, len) == {f \in [1..n -> 0..len] : SumTo(f, n) = len}

Page(cal, f, i) ==
    LET items == SubSeq(cal, SumTo(f, i - 1) + 1, SumTo(f, i))
        body == IF items = <<>> THEN [kind |-> "calendar#events"]
                ELSE [kind |-> "calendar#events", items |-> items]
    IN  IF i < Len(f) THEN body @@ [nextPageToken |-> i + 1] ELSE body

Paginate(cal, f) == [i \in 1..Len(f) |-> Page(cal, f, i)]

Remotes ==
    UNION {{Paginate(cal, f) : f \in Chunkings(n, Len(cal))} :
             <<cal, n>> \in Calendars \X (1..MaxPages)}

\* service.events().list(..., page_token=token).execute()
Serve(pages, token) == pages[IF token = NoPageToken THEN 1 ELSE token]

RECURSIVE Items(_)
Items(pages) ==
    IF pages = <<>> THEN <<>>
    ELSE Get(Head(pages), "items", <<>>) \o Items(Tail(pages))

\* Mutant: the loop stops after the first page.
LoopEndsAfterFirstPage(token) == TRUE

\* if not page_token: break
LoopEnds(token) == token = NoPageToken

----------------------------------------------------------------------------
(* process_events: a raw entry becomes one Event and its Attendees, or a   *)
(* validation error.                                                       *)

NoError == [type |-> "none"]

event_data(event) ==
    [id |-> event.id,
     title |-> Get(event, "summary", "No Title"),
     starttime |-> Or(Get(event.start, "dateTime", "None"), Get(event.start, "date", "None")),
     endtime |-> Or(Get(event.end, "dateTime", "None"), Get(event.end, "date", "None")),
     updated |-> event.updated,
     status |-> Get(event, "status", "No Status"),
     organizer |-> Get(event.organizer, "email", "No Organizer")]

\* A datetime field takes a timestamp or a date; None is neither.
IsDatetime(v) == v # "None"

\* Event(**event_data): the error of the first field that does not validate.
EventError(data) ==
    IF ~IsDatetime(data.starttime)
    THEN [type |-> "ValidationError", title |-> "Event", loc |-> "starttime"]
    ELSE IF ~IsDatetime(data.endtime)
    THEN [type |-> "ValidationError", title |-> "Event", loc |-> "endtime"]
    ELSE NoError

\* Mutant: the placeholder of a missing email is itself a valid address.
AttendeeEmailValidPlaceholder(attendee_data) == Get(attendee_data, "email", a1)

\* attendee_data.get("email", "No Email")
AttendeeEmail(attendee_data) == Get(attendee_data, "email", NoEmail)

\* Mutant: the email field is a plain string, every value is accepted.
EmailStrAcceptsAnything(email) == TRUE

\* EmailStr: the value, trimmed, must have the shape of an address.
EmailStrAccepts(email) == EmailShape(strip(email))

\* Attendee(event_id=..., email=...): the object, or the error of the email field.
\* The error names the model, the field and the rejected input.
Attendee(event_id, email) ==
    IF EmailStrAccepts(email)
    THEN [ok |-> TRUE, obj |-> [event_id |-> event_id, email |-> strip(email)]]
    ELSE [ok |-> FALSE,
          error |-> [type |-> "ValidationError", title |-> "Attendee",
                     loc |-> "email", input |-> email]]

\* One iteration of the loop over raw_events.
Normalize(event) ==
    LET data == event_data(event)
        raw == Get(event, "attendees", <<>>)
        made == [i \in 1..Len(raw) |-> Attendee(data.id, AttendeeEmail(raw[i]))]
        bad == {i \in 1..Len(raw) : ~made[i].ok}
    IN  IF EventError(data) # NoError THEN [ok |-> FALSE, error |-> EventError(data)]
        ELSE IF bad # {}
        THEN [ok |-> FALSE, error |-> made[CHOOSE i \in bad : \A j \in bad : i <= j].error]
        ELSE [ok |-> TRUE,
              group |-> [event |-> data,
                         attendees |-> [i \in 1..Len(raw) |-> made[i].obj]]]

----------------------------------------------------------------------------
(* The store.                                                              *)

EmptyStore == [events |-> {}, attendees |-> {}]

EventRow(e) ==
    [event_id |-> e.id, title |-> e.title, start_time |-> e.starttime,
     end_time |-> e.endtime, updated |-> e.updated, status |-> e.status,
     organizer |-> e.organizer]

EventIds(rows) == {r.event_id : r \in rows}

\* Mutant: the organizer is missing from the DO UPDATE SET list.
UpsertEventKeepingOrganizer(rows, row) ==
    IF row.event_id \in EventIds(rows)
    THEN {IF r.event_id = row.event_id THEN [row EXCEPT !.organizer = r.organizer] ELSE r :
            r \in rows}
    ELSE rows \cup {row}

\* INSERT INTO events ... ON CONFLICT (event_id) DO UPDATE SET ...
UpsertEvent(rows, row) ==
    IF row.event_id \in EventIds(rows)
    THEN {IF r.event_id = row.event_id
          THEN [r EXCEPT !.title = row.title, !.start_time = row.start_time,
                         !.end_time = row.end_time, !.updated = row.updated,
                         !.status = row.status, !.organizer = row.organizer]
          ELSE r : r \in rows}
    ELSE rows \cup {row}

\* Mutant: the attendees of the event are replaced by the one inserted.
InsertAttendeeReplacing(rows, id, event_id, email) ==
    {r \in rows : r.event_id # event_id}
        \cup {[attendee_id |-> id, event_id |-> event_id, email |-> email]}

\* INSERT INTO attendees (event_id, email) ... ON CONFLICT DO NOTHING: the only
\* unique constraint of the table is its primary key, the serial attendee_id.
InsertAttendee(rows, id, event_id, email) ==
    IF \E r \in rows : r.attendee_id = id THEN rows
    ELSE rows \cup {[attendee_id |-> id, event_id |-> event_id, email |-> email]}

\* FOREIGN KEY (event_id) REFERENCES events(event_id)
ForeignKeyHolds(store) == \A r \in store.attendees : r.event_id \in EventIds(store.events)

AttendeeStatements(group) ==
    [i \in 1..Len(group.attendees) |->
        [kind |-> "attendee", event_id |-> group.attendees[i].event_id,
         email |-> group.attendees[i].email]]

\* Mutant: the attendees of a group are written before its event.
GroupStatementsAttendeesFirst(group) ==
    AttendeeStatements(group) \o <<[kind |-> "event", row |-> EventRow(group.event)]>>

\* The statements one iteration of insert_into_postgres executes, in order.
GroupStatements(group) ==
    <<[kind |-> "event", row |-> EventRow(group.event)]>> \o AttendeeStatements(group)

\* Mutant: the connection is in autocommit mode.
CommittedAfterStatementAutocommit(committed, seen) == seen

\* cur.execute leaves the committed rows alone: the commit follows the loop.
CommittedAfterStatement(committed, seen) == committed

----------------------------------------------------------------------------
(* main, one action per step.                                              *)

Init ==
    /\ pc = "idle"
    /\ runs = 0
    /\ conn = "none"
    /\ connOps = <<>>
    /\ calls = <<>>
    /\ tablesExist = {}
    /\ db = EmptyStore
    /\ tx = EmptyStore
    /\ serial = 0
    /\ remote = <<>>
    /\ requests = <<>>
    /\ all_events = <<>>
    /\ page_token = NoPageToken
    /\ raw_events = <<>>
    /\ processed_events = <<>>
    /\ error = NoError
    /\ grp = 1
    /\ stmt = 0
    /\ writes = <<>>
    /\ dbAtStart = EmptyStore
    /\ runLog = <<>>

Called(f) == \E i \in DOMAIN calls : calls[i] = f

\* The calls of main so far, f among them.
Entered(f) == IF Called(f) THEN calls ELSE Append(calls, f)

\* An exception leaves main: nothing after the raising call runs.
Raise(e) ==
    /\ pc' = "failed"
    /\ error' = e

\* A process starts and connects (psycopg2.connect).  The calendar it will
\* read is whatever the remote holds during this run.
Connect ==
    /\ pc = "idle"
    /\ runs < MaxRuns
    /\ \E r \in Remotes : remote' = r
    /\ runs' = runs + 1
    /\ conn' = "open"
    /\ connOps' = <<"connect">>
    /\ calls' = <<>>
    /\ dbAtStart' = db
    /\ tx' = db
    /\ pc' = "migrate"
    /\ UNCHANGED <<tablesExist, db, serial, requests, all_events, page_token,
                   raw_events, processed_events, error, grp, stmt, writes, runLog>>

\* make_migrations: CREATE TABLE IF NOT EXISTS twice, commit, close the cursor.
make_migrations ==
    /\ pc = "migrate"
    /\ calls' = Append(calls, "make_migrations")
    /\ tablesExist' = tablesExist \cup {"events", "attendees"}
    /\ db' = tx
    /\ connOps' = Append(connOps, "commit")
    /\ pc' = "fetch"
    /\ all_events' = <<>>
    /\ page_token' = NoPageToken
    /\ UNCHANGED <<runs, conn, tx, serial, remote, requests, raw_events,
                   processed_events, error, grp, stmt, writes, dbAtStart, runLog>>

\* fetch_events, one iteration of its loop: request the page of page_token,
\* extend the accumulator, take the next token, return when there is none.
fetch_events ==
    /\ pc = "fetch"
    /\ LET events_result == Serve(remote, page_token)
           next_token == Get(events_result, "nextPageToken", NoPageToken)
           extended == all_events \o Get(events_result, "items", <<>>)
       IN  /\ requests' = Append(requests, page_token)
           /\ all_events' = extended
           /\ page_token' = next_token
           /\ IF LoopEnds(next_token)
              THEN /\ raw_events' = extended
                   /\ pc' = "process"
              ELSE UNCHANGED <<raw_events, pc>>
    /\ calls' = Entered("fetch_events")
    /\ UNCHANGED <<runs, conn, connOps, tablesExist, db, tx, serial, remote,
                   processed_events, error, grp, stmt, writes, dbAtStart, runLog>>

\* The request raises (transport, authorization, a rejected argument): the
\* error propagates out of main.
FetchFail ==
    /\ pc = "fetch"
    /\ Raise([type |-> "HttpError"])
    /\ requests' = Append(requests, page_token)
    /\ calls' = Entered("fetch_events")
    /\ UNCHANGED <<runs, conn, connOps, tablesExist, db, tx, serial, remote,
                   all_events, page_token, raw_events, processed_events, grp,
                   stmt, writes, dbAtStart, runLog>>

\* process_events, one iteration of its loop over raw_events; the first entry
\* that does not validate raises.
process_events ==
    /\ pc = "process"
    /\ Len(processed_events) < Len(raw_events)
    /\ LET n == Normalize(raw_events[Len(processed_events) + 1])
       IN  IF n.ok
           THEN /\ processed_events' = Append(processed_events, n.group)
                /\ UNCHANGED <<pc, error>>
           ELSE /\ Raise(n.error)
                /\ UNCHANGED processed_events
    /\ calls' = Entered("process_events")
    /\ UNCHANGED <<runs, conn, connOps, tablesExist, db, tx, serial, remote,
                   requests, all_events, page_token, raw_events, grp, stmt,
                   writes, dbAtStart, runLog>>

\* process_events returns; main calls insert_into_postgres, which opens a cursor.
process_events_return ==
    /\ pc = "process"
    /\ Len(processed_events) = Len(raw_events)
    /\ calls' = Append(Entered("process_events"), "insert_into_postgres")
    /\ grp' = 1
    /\ stmt' = 0
    /\ writes' = <<>>
    /\ pc' = "insert"
    /\ UNCHANGED <<runs, conn, connOps, tablesExist, db, tx, serial, remote,
                   requests, all_events, page_token, raw_events,
                   processed_events, error, dbAtStart, runLog>>

\* insert_into_postgres, one cur.execute: the next statement of the group.
insert_statement ==
    /\ pc = "insert"
    /\ grp <= Len(processed_events)
    /\ LET stmts == GroupStatements(processed_events[grp])
           s == stmts[stmt + 1]
           last == stmt + 1 = Len(stmts)
           seen == IF s.kind = "event"
                   THEN [tx EXCEPT !.events = UpsertEvent(@, s.row)]
                   ELSE [tx EXCEPT !.attendees =
                            InsertAttendee(@, serial + 1, s.event_id, s.email)]
       IN  IF ForeignKeyHolds(seen)
           THEN /\ tx' = seen
                /\ db' = CommittedAfterStatement(db, seen)
                /\ serial' = IF s.kind = "attendee" THEN serial + 1 ELSE serial
                /\ writes' = IF s.kind = "event" THEN Append(writes, s.row) ELSE writes
                /\ grp' = IF last THEN grp + 1 ELSE grp
                /\ stmt' = IF last THEN 0 ELSE stmt + 1
                /\ UNCHANGED <<pc, error>>
           ELSE /\ Raise([type |-> "ForeignKeyViolation", event_id |-> s.event_id])
                /\ UNCHANGED <<tx, db, serial, writes, grp, stmt>>
    /\ UNCHANGED <<runs, conn, connOps, calls, tablesExist, remote, requests,
                   all_events, page_token, raw_events, processed_events,
                   dbAtStart, runLog>>

\* The store fails while a statement of the current group executes.
StoreFail ==
    /\ pc = "insert"
    /\ grp <= Len(processed_events)
    /\ Raise([type |-> "OperationalError", during |-> "execute"])
    /\ UNCHANGED <<runs, conn, connOps, calls, tablesExist, db, tx, serial,
                   remote, requests, all_events, page_token, raw_events,
                   processed_events, grp, stmt, writes, dbAtStart, runLog>>

\* conn.commit(), cur.close(), and main prints "Done".
insert_commit ==
    /\ pc = "insert"
    /\ grp > Len(processed_events)
    /\ db' = tx
    /\ connOps' = Append(connOps, "commit")
    /\ pc' = "done"
    /\ UNCHANGED <<runs, conn, calls, tablesExist, tx, serial, remote, requests,
                   all_events, page_token, raw_events, processed_events, error,
                   grp, stmt, writes, dbAtStart, runLog>>

\* The connection is lost during conn.commit(): the transaction is committed
\* or not, the process cannot tell.
CommitFail ==
    /\ pc = "insert"
    /\ grp > Len(processed_events)
    /\ db' \in {db, tx}
    /\ Raise([type |-> "OperationalError", during |-> "commit"])
    /\ UNCHANGED <<runs, conn, connOps, calls, tablesExist, tx, serial, remote,
                   requests, all_events, page_token, raw_events,
                   processed_events, grp, stmt, writes, dbAtStart, runLog>>

\* The process ends, after "Done" or with the exception: its connection goes
\* with it, and the server rolls back what was not committed.
ProcessExit ==
    /\ pc \in {"done", "failed"}
    /\ runLog' = Append(runLog,
                        IF pc = "done"
                        THEN [ok |-> TRUE, input |-> raw_events,
                              events |-> Cardinality(db.events),
                              attendees |-> Cardinality(db.attendees)]
                        ELSE [ok |-> FALSE])
    /\ conn' = "closed"
    /\ tx' = db
    /\ pc' = "idle"
    /\ remote' = <<>>
    /\ requests' = <<>>
    /\ all_events' = <<>>
    /\ page_token' = NoPageToken
    /\ raw_events' = <<>>
    /\ processed_events' = <<>>
    /\ error' = NoError
    /\ grp' = 1
    /\ stmt' = 0
    /\ writes' = <<>>
    /\ connOps' = <<>>
    /\ calls' = <<>>
    /\ dbAtStart' = db
    /\ UNCHANGED <<runs, tablesExist, db, serial>>

Next ==
    \/ Connect
    \/ make_migrations
    \/ fetch_events
    \/ FetchFail
    \/ process_events
    \/ process_events_return
    \/ insert_statement
    \/ StoreFail
    \/ insert_commit
    \/ CommitFail
    \/ ProcessExit

Spec == Init /\ [][Next]_vars

----------------------------------------------------------------------------
(* The claims.                                                             *)

InputEventIds(input) == {input[i].id : i \in DOMAIN input}

InputPairs(input) ==
    UNION {{<<input[i].id, strip(AttendeeEmail(Get(input[i], "attendees", <<>>)[j]))>> :
              j \in DOMAIN Get(input[i], "attendees", <<>>)} : i \in DOMAIN input}

\* C1: two successful runs on the same fetched input, the first on an empty
\* store, leave the same row counts: one events row per distinct event id and
\* one attendees row per distinct (event_id, email) pair.
C1_RerunKeepsRowCounts ==
    (/\ Len(runLog) >= 2
     /\ runLog[1].ok /\ runLog[2].ok
     /\ runLog[1].input = runLog[2].input)
    => /\ runLog[1].events = Cardinality(InputEventIds(runLog[1].input))
       /\ runLog[1].attendees = Cardinality(InputPairs(runLog[1].input))
       /\ runLog[2].events = runLog[1].events
       /\ runLog[2].attendees = runLog[1].attendees

Fetched == pc \in {"process", "insert", "done"}

UniqueEventIds(rows) == \A r1, r2 \in rows : r1.event_id = r2.event_id => r1 = r2

WrittenIds == {writes[i].event_id : i \in DOMAIN writes}

LastWrite(id) ==
    writes[CHOOSE i \in DOMAIN writes :
              /\ writes[i].event_id = id
              /\ \A j \in DOMAIN writes : writes[j].event_id = id => j <= i]

\* C3: the events table never holds two rows of one id, and the row of an id the
\* run has written is the most recent write, field by field; after the commit
\* that is what the store holds.
C3_UpsertOverwrites ==
    /\ UniqueEventIds(db.events)
    /\ UniqueEventIds(tx.events)
    /\ \A id \in WrittenIds : LastWrite(id) \in tx.events
    /\ pc = "done" => \A id \in WrittenIds : LastWrite(id) \in db.events

\* An event the store already held is written again with every mutable field changed.
C3_Witness ==
    /\ pc = "done"
    /\ \E old \in dbAtStart.events : \E id \in WrittenIds :
          LET new == LastWrite(id)
          IN  /\ old.event_id = id
              /\ old.title # new.title /\ old.start_time # new.start_time
              /\ old.end_time # new.end_time /\ old.updated # new.updated
              /\ old.status # new.status /\ old.organizer # new.organizer
              /\ new \in db.events

\* C4: the event statement of a group executes before its attendee statements:
\* no statement violates the foreign key, and every attendee row, committed or
\* seen inside the transaction, and after a run that failed part-way, refers to
\* an events row.
C4_EventBeforeAttendees ==
    /\ ForeignKeyHolds(db)
    /\ ForeignKeyHolds(tx)
    /\ error.type # "ForeignKeyViolation"
    /\ (pc = "insert" /\ grp <= Len(processed_events) /\ stmt >= 1)
          => processed_events[grp].event.id \in EventIds(tx.events)

\* A run fails after it wrote attendees of an event the store did not hold.
C4_Witness ==
    /\ pc = "failed"
    /\ \E r \in tx.attendees : r.event_id \notin EventIds(dbAtStart.events)

FailedWritingGroup ==
    /\ pc = "failed"
    /\ error.type = "OperationalError"
    /\ error.during = "execute"

\* C5, as stated: when the store fails while group k is written, the rows of
\* groups 1..k-1 of that run are committed.
C5_EarlierGroupsStayCommitted ==
    FailedWritingGroup =>
        \A g \in 1..(grp - 1) : processed_events[g].event.id \in EventIds(db.events)

\* C5, amended: when the store fails while group k is written, nothing the run
\* wrote is committed: the store holds the rows it held before the run.
C5_FailedRunCommitsNothing == FailedWritingGroup => db = dbAtStart

\* The failure comes after a whole group was written.
C5_Witness ==
    /\ FailedWritingGroup
    /\ grp >= 2
    /\ tx.events # db.events
    /\ tx.attendees # db.attendees

\* Whether an entry fails validation, by the rules of the two record shapes.
EntryInvalid(event) ==
    \/ Or(Get(event.start, "dateTime", "None"), Get(event.start, "date", "None")) = "None"
    \/ Or(Get(event.end, "dateTime", "None"), Get(event.end, "date", "None")) = "None"
    \/ \E j \in DOMAIN Get(event, "attendees", <<>>) :
          ~EmailShape(strip(Get(event.attendees[j], "email", NoEmail)))

InvalidEntries == {i \in DOMAIN raw_events : EntryInvalid(raw_events[i])}

\* C6: when an entry of the fetched input fails validation, the run stops at the
\* first such entry: nothing from it on is normalized, insert_into_postgres is
\* not called, and the tables hold what they held before the run.
C6_ValidationFailureAborts ==
    InvalidEntries # {} =>
        /\ pc \in {"process", "failed"}
        /\ \A i \in InvalidEntries : Len(processed_events) < i
        /\ pc = "failed" =>
              /\ error.type = "ValidationError"
              /\ Len(processed_events) + 1 \in InvalidEntries
        /\ ~Called("insert_into_postgres")
        /\ db = dbAtStart
        /\ tx = dbAtStart

\* A run over a store that holds rows fails at its second entry.
C6_Witness ==
    /\ pc = "failed"
    /\ error.type = "ValidationError"
    /\ Len(processed_events) = 1
    /\ dbAtStart.events # {}
    /\ dbAtStart.attendees # {}

ProcessedIds == {processed_events[i].event.id : i \in DOMAIN processed_events}

\* C7: no step removes a committed row: every attendees row stays, every event
\* id stays, and the row of an event the run did not fetch stays as it is.
C7_NoRowRemoved ==
    [][/\ db.attendees \subseteq db'.attendees
       /\ EventIds(db.events) \subseteq EventIds(db'.events)
       /\ \A r \in db.events : r.event_id \notin ProcessedIds => r \in db'.events]_vars

\* A second run succeeds on an input without an event the store holds.
C7_Witness ==
    /\ runs >= 2
    /\ pc = "done"
    /\ raw_events # <<>>
    /\ \E r \in db.events :
          /\ r.event_id \notin InputEventIds(raw_events)
          /\ \E a \in db.attendees : a.event_id = r.event_id

\* C8: the connection is acquired once, first of all, and a run that prints
\* "Done" has committed and then closed it.
C8_ConnectionReleased ==
    /\ connOps # <<>> =>
          /\ connOps[1] = "connect"
          /\ \A i \in 2..Len(connOps) : connOps[i] # "connect"
    /\ pc = "done" =>
          /\ conn = "closed"
          /\ Len(connOps) >= 2
          /\ connOps[Len(connOps) - 1] = "commit"
          /\ connOps[Len(connOps)] = "close"

\* C9: the validation error of an attendee email carries the id of the event
\* whose attendee list held the email.
C9_ErrorNamesEvent ==
    (pc = "failed" /\ error.type = "ValidationError" /\ error.title = "Attendee")
    => /\ "event_id" \in DOMAIN error
       /\ error.event_id = raw_events[Len(processed_events) + 1].id

MissingEmail ==
    \E i \in DOMAIN raw_events : \E j \in DOMAIN Get(raw_events[i], "attendees", <<>>) :
        "email" \notin DOMAIN raw_events[i].attendees[j]

\* C10: no attendees row carries the placeholder "No Email", and a fetched input
\* with an attendee entry without email ends in a validation failure with no row
\* written, not even for the well-formed events before that entry.
C10_MissingEmailAborts ==
    /\ \A r \in db.attendees \cup tx.attendees : r.email # NoEmail
    /\ MissingEmail =>
          /\ pc \in {"process", "failed"}
          /\ pc = "failed" => error.type = "ValidationError"
          /\ db = dbAtStart
          /\ tx = dbAtStart

\* The entry without email follows a well-formed event and is what fails.
C10_Witness ==
    /\ pc = "failed"
    /\ error.type = "ValidationError"
    /\ error.title = "Attendee"
    /\ error.input = NoEmail
    /\ processed_events # <<>>

====
